---- MODULE Spec2Model ----
(***************************************************************************)
(* Model of list_phones_by_processor.py: the paginated, retrying crawl of  *)
(* kimovil.com (fill_proc_pages / fill_all_proc_pages / main), the page    *)
(* store (proc_query_list), the incremental CSV writer and the extractor   *)
(* filter_response.                                                        *)
(*                                                                         *)
(* Text is modelled as a sequence of one-character strings, so that        *)
(* strip, split(' ', 1), int() and string ordering are computed, not       *)
(* assumed.                                                                *)
(***************************************************************************)
EXTENDS Integers, Sequences, FiniteSets, TLC

\* Largest number of paginated requests (calls of page.goto inside
\* fill_proc_pages) one run of the model may issue.
MaxRequests == 3

\* Largest number of 429 answers in a row a fair service gives for one page.
MaxRateLimits == 1

\* Largest page index a fair service points to.
MaxPage == 1

VARIABLES
    pc,               \* position of the single control flow (main -> fill_all_proc_pages -> fill_proc_pages)
    processors,       \* config['processors']
    bands,            \* config['bands']
    processors_list,  \* catalog: processor name -> kimovil id (main, line 746)
    proc_query_list,  \* proc -> band -> pages, pages = insertion-ordered <<[idx, content]>>
    query_order,      \* keys of proc_query_list in insertion order
    pi,               \* index in query_order of the processor being crawled
    bi,               \* index in bands of the band being crawled
    start_page,       \* argument start_page of the running fill_proc_pages call
    depth,            \* number of nested fill_proc_pages calls of the running Query
    url,              \* the URL last handed to page.goto
    csv,              \* the rows of the CSV file, header excluded
    csv_header,       \* TRUE once create_csv_file has written the header
    progress_data,    \* the global counters
    phone_models_list,\* result of get_proc_phone_models (main, line 818)
    exit_code,        \* -1 while running, else the process exit status
    hist,             \* observation only: the requests issued and the Queries started so far
    filter_args,      \* the arguments of a call of filter_response taken on its own
    filter_map,       \* what that call of filter_response returned
    server,           \* what the remote service may answer: "hostile" (anything) or "fair"
    disk              \* whether opening the CSV file for append may fail: "sound" or "failing"

filter_vars == <<filter_args, filter_map>>

vars == <<pc, processors, bands, processors_list, proc_query_list, query_order, pi, bi,
          start_page, depth, url, csv, csv_header, progress_data, phone_models_list,
          exit_code, hist, filter_args, filter_map, server, disk>>

-----------------------------------------------------------------------------
\* Text helpers

\* Code points of the characters the model uses (Python compares str by code point).
Ord(c) ==
    CASE c = " " -> 32 [] c = "-" -> 45 [] c = "." -> 46
      [] c = "0" -> 48 [] c = "1" -> 49 [] c = "2" -> 50 [] c = "3" -> 51 [] c = "4" -> 52
      [] c = "A" -> 65 [] c = "B" -> 66 [] c = "p" -> 112 [] c = "x" -> 120 [] c = "y" -> 121
      [] OTHER -> 127

IsSpace(c) == c = " "

IsDigit(c) == Ord(c) >= 48 /\ Ord(c) <= 57

RECURSIVE LStrip(_)
LStrip(s) == IF s # <<>> /\ IsSpace(Head(s)) THEN LStrip(Tail(s)) ELSE s

RECURSIVE RStrip(_)
RStrip(s) ==
    IF s # <<>> /\ IsSpace(s[Len(s)]) THEN RStrip(SubSeq(s, 1, Len(s) - 1)) ELSE s

\* str.strip()
Strip(s) == RStrip(LStrip(s))

\* Python's < on str
RECURSIVE StrLess(_, _)
StrLess(a, b) ==
    IF b = <<>> THEN FALSE
    ELSE IF a = <<>> THEN TRUE
    ELSE IF Head(a) # Head(b) THEN Ord(Head(a)) < Ord(Head(b))
    ELSE StrLess(Tail(a), Tail(b))

\* index of the first / last occurrence of character c in s, 0 when absent
RECURSIVE FindFrom(_, _, _)
FindFrom(s, c, i) ==
    IF i > Len(s) THEN 0 ELSE IF s[i] = c THEN i ELSE FindFrom(s, c, i + 1)

RECURSIVE RFindFrom(_, _, _)
RFindFrom(s, c, i) ==
    IF i < 1 THEN 0 ELSE IF s[i] = c THEN i ELSE RFindFrom(s, c, i - 1)

\* a variant of Split1 that leaves the separator at the head of the remainder
C17_SplitKeepsSeparator(model) ==
    LET i == FindFrom(model, " ", 1)
    IN  IF i = 0 THEN <<model>>
        ELSE <<SubSeq(model, 1, i - 1), SubSeq(model, i, Len(model))>>

\* model.split(' ', 1)
Split1(model) ==
    LET i == FindFrom(model, " ", 1)
    IN  IF i = 0 THEN <<model>>
        ELSE <<SubSeq(model, 1, i - 1), SubSeq(model, i + 1, Len(model))>>

\* next_page_url.split('.')[-1]
LastPiece(s) == SubSeq(s, RFindFrom(s, ".", Len(s)) + 1, Len(s))

\* Whether int(piece) succeeds: optional sign, then at least one digit, surrounding
\* whitespace allowed.
IsIntLiteral(piece) ==
    LET t == Strip(piece)
        d == IF t # <<>> /\ Head(t) = "-" THEN Tail(t) ELSE t
    IN  d # <<>> /\ \A i \in 1..Len(d) : IsDigit(d[i])

RECURSIVE DigitsValue(_)
DigitsValue(d) ==
    IF d = <<>> THEN 0
    ELSE 10 * DigitsValue(SubSeq(d, 1, Len(d) - 1)) + (Ord(d[Len(d)]) - 48)

\* int(piece), for a piece that IsIntLiteral
ToInt(piece) ==
    LET t == Strip(piece)
    IN  IF Head(t) = "-" THEN 0 - DigitsValue(Tail(t)) ELSE DigitsValue(t)

-----------------------------------------------------------------------------
\* HTML fragments: a fragment is a sequence of nodes; a node is a text node
\* [tag |-> "text", text] or an element [tag |-> "elem", attrs, kids].

TextNode(t) == [tag |-> "text", text |-> t]

Elem(cls, kids) == [tag |-> "elem", attrs |-> [class |-> cls], kids |-> kids]

\* an element that also carries a value attribute
ElemValue(cls, value, kids) ==
    [tag |-> "elem", attrs |-> [class |-> cls, value |-> value], kids |-> kids]

\* <div class="device-name"><span>name</span></div>
Device(name) == Elem("device-name", <<Elem("", <<TextNode(name)>>)>>)

NameAx == <<"A", " ", "x">>
NameAy == <<"A", " ", "y">>
NameB == <<"B">>

\* the page contents the modelled server may send
FragOne == <<Device(NameAx)>>
FragTwo == <<Device(NameB), Device(NameAx), Device(NameB)>>
FragThree == <<Device(NameAy), Elem("device-name", <<TextNode(<<" ">>), Elem("", <<TextNode(NameB)>>)>>), Elem("other", <<TextNode(NameB)>>)>>
FragEmpty == <<>>

\* soup.find_all(attrs={attr_filter: attr_filter_value}): the matching elements of
\* the forest, in document order
RECURSIVE FindAll(_, _, _)
FindAll(nodes, attr_filter, attr_filter_value) ==
    IF nodes = <<>> THEN <<>>
    ELSE LET n == Head(nodes)
             here == IF n.tag = "elem" /\ attr_filter \in DOMAIN n.attrs
                        /\ n.attrs[attr_filter] = attr_filter_value
                     THEN <<n>> ELSE <<>>
             below == IF n.tag = "elem" THEN FindAll(n.kids, attr_filter, attr_filter_value) ELSE <<>>
         IN  here \o below \o FindAll(Tail(nodes), attr_filter, attr_filter_value)

\* get_text(strip=True): the stripped, non-empty strings below a node, joined
RECURSIVE GetText(_)
RECURSIVE GetTextAll(_)
GetText(n) == IF n.tag = "text" THEN Strip(n.text) ELSE GetTextAll(n.kids)
GetTextAll(nodes) == IF nodes = <<>> THEN <<>> ELSE GetText(Head(nodes)) \o GetTextAll(Tail(nodes))

\* lines 167-169: descend to the first child, child_level times; an element
\* without children stays where it is
RECURSIVE Descend(_, _)
Descend(n, child_level) ==
    IF child_level = 0 THEN n
    ELSE IF n.tag = "elem" /\ n.kids # <<>> THEN Descend(Head(n.kids), child_level - 1)
    ELSE Descend(n, child_level - 1)

\* a variant of CollectTexts that appends the text of every match, empty or not
RECURSIVE C20_KeepEmptyTexts(_, _)
C20_KeepEmptyTexts(elements, child_level) ==
    IF elements = <<>> THEN <<>>
    ELSE <<GetText(Descend(Head(elements), child_level))>>
         \o C20_KeepEmptyTexts(Tail(elements), child_level)

\* lines 162-179 without attr_to_add: the list of the non-empty texts, in document order
RECURSIVE CollectTexts(_, _)
CollectTexts(elements, child_level) ==
    IF elements = <<>> THEN <<>>
    ELSE LET text == GetText(Descend(Head(elements), child_level))
         IN  (IF text # <<>> THEN <<text>> ELSE <<>>) \o CollectTexts(Tail(elements), child_level)

\* element.get(attr_to_add, '')
GetAttr(element, attr_to_add) ==
    IF attr_to_add \in DOMAIN element.attrs THEN element.attrs[attr_to_add] ELSE ""

\* filter_map[text] = attr_value on a dict
SetItem(map, key, value) ==
    [k \in DOMAIN map \cup {key} |-> IF k = key THEN value ELSE map[k]]

\* lines 162-179 with attr_to_add: the dict text -> attribute, filled in document
\* order
RECURSIVE CollectMap(_, _, _)
CollectMap(elements, child_level, attr_to_add) ==
    IF elements = <<>> THEN <<>>
    ELSE LET init == CollectMap(SubSeq(elements, 1, Len(elements) - 1), child_level, attr_to_add)
             element == elements[Len(elements)]
             text == GetText(Descend(element, child_level))
         IN  IF text # <<>> THEN SetItem(init, text, GetAttr(element, attr_to_add)) ELSE init

\* attr_to_add=None
None == "None"

\* filter_response(html, attr_filter, attr_filter_value, child_level, attr_to_add):
\* a list of texts without attr_to_add, a dict text -> attribute with it
filter_response(html, attr_filter, attr_filter_value, child_level, attr_to_add) ==
    LET elements == FindAll(html, attr_filter, attr_filter_value)
    IN  IF attr_to_add # None THEN CollectMap(elements, child_level, attr_to_add)
        ELSE CollectTexts(elements, child_level)

SeqToSet(s) == {s[i] : i \in DOMAIN s}

-----------------------------------------------------------------------------
\* The page store and the CSV writer

\* dict keys in insertion order: the first occurrence of every element
RECURSIVE Dedup(_)
Dedup(s) ==
    IF s = <<>> THEN <<>>
    ELSE LET init == Dedup(SubSeq(s, 1, Len(s) - 1))
         IN  IF s[Len(s)] \in SeqToSet(init) THEN init ELSE Append(init, s[Len(s)])

\* a variant of StorePage that replaces the band's dict by the new page alone
C7_StoreClearsBand(band_pages, idx, content) == <<[idx |-> idx, content |-> content]>>

\* band_pages[start_page] = content on an insertion-ordered dict (line 258)
StorePage(band_pages, idx, content) ==
    IF \E i \in DOMAIN band_pages : band_pages[i].idx = idx
    THEN [i \in DOMAIN band_pages |->
            IF band_pages[i].idx = idx THEN [idx |-> idx, content |-> content] ELSE band_pages[i]]
    ELSE Append(band_pages, [idx |-> idx, content |-> content])

\* proc_list[proc_name][band_filter][start_page] = res_json['content']
StoreContent(proc_list, proc_name, band_filter, idx, content) ==
    [proc_list EXCEPT ![proc_name][band_filter] = StorePage(@, idx, content)]

\* sorted(...) of a set of strings
RECURSIVE SortedStrings(_)
SortedStrings(S) ==
    IF S = {} THEN <<>>
    ELSE LET m == CHOOSE x \in S : \A y \in S \ {x} : StrLess(x, y)
         IN  <<m>> \o SortedStrings(S \ {m})

\* lines 494-503: one row of the CSV file
MakeRow(proc_name, model) ==
    LET parts == Split1(model)
        brand == IF Len(parts) > 0 THEN parts[1] ELSE <<"U">>
        model_name == IF Len(parts) > 1 THEN parts[2] ELSE model
    IN  [Processor |-> proc_name, Brand |-> brand, Model |-> model_name, Full_Name |-> model]

\* a variant of KeyLess that sorts in descending order
C18_KeyGreater(a, b) ==
    IF a.Brand # b.Brand THEN StrLess(b.Brand, a.Brand) ELSE StrLess(b.Model, a.Model)

\* the sort key (x['Brand'], x['Model']) compared as Python compares tuples
KeyLess(a, b) ==
    IF a.Brand # b.Brand THEN StrLess(a.Brand, b.Brand) ELSE StrLess(a.Model, b.Model)

\* list.sort(key=...) is stable: a row goes after every row whose key is not greater
RECURSIVE InsertRow(_, _)
InsertRow(sorted, row) ==
    IF sorted = <<>> THEN <<row>>
    ELSE IF KeyLess(row, Head(sorted)) THEN <<row>> \o sorted
    ELSE <<Head(sorted)>> \o InsertRow(Tail(sorted), row)

RECURSIVE SortRows(_)
SortRows(rows) ==
    IF rows = <<>> THEN <<>>
    ELSE InsertRow(SortRows(SubSeq(rows, 1, Len(rows) - 1)), rows[Len(rows)])

\* lines 490-506: the batch append_processor_to_csv writes for proc_models
CsvBatch(proc_name, proc_models) ==
    LET names == SortedStrings(SeqToSet(proc_models))
    IN  SortRows([i \in DOMAIN names |-> MakeRow(proc_name, names[i])])

\* a variant of append_processor_to_csv that opens the file for writing, not appending
C19_WriteOverFile(rows, proc_name, proc_models) ==
    IF proc_models = <<>> THEN rows ELSE CsvBatch(proc_name, proc_models)

\* append_processor_to_csv(filename, proc_name, proc_models): the file afterwards
append_processor_to_csv(rows, proc_name, proc_models) ==
    IF proc_models = <<>> THEN rows ELSE rows \o CsvBatch(proc_name, proc_models)

\* lines 437-443: arr, the models of every stored page of one processor, bands and
\* pages in dict order
RECURSIVE PagesModels(_)
PagesModels(band_pages) ==
    IF band_pages = <<>> THEN <<>>
    ELSE filter_response(Head(band_pages).content, "class", "device-name", 1, None)
         \o PagesModels(Tail(band_pages))

RECURSIVE BandsModels(_, _)
BandsModels(proc_pages, band_keys) ==
    IF band_keys = <<>> THEN <<>>
    ELSE PagesModels(proc_pages[Head(band_keys)]) \o BandsModels(proc_pages, Tail(band_keys))

\* get_proc_phone_models(proc_query_list): proc -> set(arr)
get_proc_phone_models(proc_list, band_keys) ==
    [p \in DOMAIN proc_list |-> SeqToSet(BandsModels(proc_list[p], band_keys))]

-----------------------------------------------------------------------------
\* What the environment may supply

\* the configurations load_config may return (it rejects empty lists): one processor
\* without band filter, each listed twice; two processors under two bands; and a list
\* with two processors the catalog does not know around one it knows
Config(procs, bnds) == [processors |-> procs, bands |-> bnds]
Configs ==
    {Config(<<"ChipX", "ChipX">>, <<"", "">>), Config(<<"ChipX", "ChipY">>, <<"n77", "n78">>),
     Config(<<"Unknown", "ChipX", "Ghost">>, <<"n78">>)}

\* what the configuration file may hold: also an empty list of bands or of processors
ConfigFiles == Configs \cup {Config(<<"ChipX">>, <<>>), Config(<<>>, <<"n78">>)}

\* the catalog the discovery response carries
Catalog == [ChipX |-> "123", ChipY |-> "456"]

\* next_page_url values: absent or '', "p.1", "p.2", "p.3", "p2", "p.x"
PtrNone == <<>>
PtrOne == <<"p", ".", "1">>
PtrTwo == <<"p", ".", "2">>
PtrThree == <<"p", ".", "3">>
PtrNoDot == <<"p", "2">>
PtrNoNumber == <<"p", ".", "x">>

\* the responses page.goto may return: the status, and whether the body is JSON
Response(status, json) == [status |-> status, json |-> json]
Responses ==
    {Response(200, TRUE), Response(200, FALSE), Response(201, TRUE), Response(403, FALSE),
     Response(429, FALSE), Response(500, FALSE)}

\* the values of page_results in a JSON body
PageResultCounts == {0, 1}

\* the JSON object has no 'content' key
NoContent == <<[tag |-> "missing"]>>

Body(content, next_page_url) == [content |-> content, next_page_url |-> next_page_url]

\* the JSON bodies with page_results > 0 the modelled server may send
PageBodies ==
    {Body(FragOne, p) : p \in {PtrNone, PtrOne, PtrTwo, PtrThree, PtrNoDot, PtrNoNumber}}
    \cup {Body(FragTwo, PtrNone), Body(FragTwo, PtrTwo), Body(FragThree, PtrNone),
          Body(FragEmpty, PtrNone), Body(NoContent, PtrNone)}

-----------------------------------------------------------------------------
\* State

NoUrl == [id |-> "", band_str |-> "", page_component |-> <<>>]

\* lines 204-219: the URL of page start_page; the page component is <<n>> for
\* ",page.n" and <<>> when the URL has none
BuildUrl(proc_id, band_filter, page_idx) ==
    [id |-> proc_id,
     band_str |-> IF band_filter # "" THEN band_filter ELSE "",
     page_component |-> IF page_idx > 0 THEN <<page_idx + 1>> ELSE <<>>]

\* a variant of band_keys that iterates the configured list as it is
C13_BandsAsListed == bands

\* the keys of the band dicts, in insertion order (lines 757-759, 773)
band_keys == Dedup(bands)

proc_name == query_order[pi]

\* no call of filter_response is looked at on its own during a run
NoCall == [html |-> <<>>, child_level |-> 0, attr_to_add |-> None]

band_filter == band_keys[bi]

\* a run starts in main with the configuration file not yet loaded
Start(config_files, remote, storage) ==
    /\ pc = "load_config"
    /\ \E config \in config_files : processors = config.processors /\ bands = config.bands
    /\ processors_list = <<>>
    /\ proc_query_list = <<>>
    /\ query_order = <<>>
    /\ pi = 1
    /\ bi = 1
    /\ start_page = 0
    /\ depth = 0
    /\ url = NoUrl
    /\ csv = <<>>
    /\ csv_header = FALSE
    /\ progress_data = [pages_fetched |-> 0, total_requests |-> 0, rate_limited |-> 0, errors |-> 0]
    /\ phone_models_list = <<>>
    /\ exit_code = -1
    /\ hist = [log |-> <<>>, queries |-> <<>>, discovery |-> <<>>, reported |-> <<>>,
               slept |-> <<>>]
    /\ filter_args = NoCall
    /\ filter_map = <<>>
    /\ server = remote
    /\ disk = storage

Init == Start(ConfigFiles, "hostile", "sound")

\* observation: one entry per paginated request; slept lists the sleeps completed
\* since the request before, store the pages held when the request is made
LogRequest(h, u) ==
    [h EXCEPT !.log = Append(@, [q |-> Len(h.queries), url |-> u, start_page |-> start_page,
                                 depth |-> depth, before |-> progress_data, status |-> 0,
                                 json |-> FALSE, ev |-> "pending", ptr |-> PtrNone,
                                 page_results |-> 0, content |-> NoContent,
                                 after |-> progress_data, rows_before |-> Len(csv),
                                 rows |-> Len(csv), slept |-> h.slept,
                                 store |-> proc_query_list]),
              !.slept = <<>>]

\* observation: an asyncio.sleep of the named configured delay has completed
LogSleep(h, delay) == [h EXCEPT !.slept = Append(@, delay)]

LogResponse(h, r, ev, page_results, ptr, content, after, rows) ==
    [h EXCEPT !.log[Len(h.log)] = [@ EXCEPT !.status = r.status, !.json = r.json, !.ev = ev,
                                              !.page_results = page_results, !.ptr = ptr,
                                              !.content = content, !.after = after,
                                              !.rows = rows]]

LogOutcome(h, outcome) == [h EXCEPT !.queries[Len(h.queries)].outcome = outcome]

Bump(pd, key) == [pd EXCEPT ![key] = @ + 1]

-----------------------------------------------------------------------------
\* main, up to the crawl

\* a variant of ConfigRejected that lets an empty list of bands through
C21_EmptyBandsAccepted(config) == config.processors = <<>>

\* load_config, lines 78-85: an empty list of bands or of processors is refused
ConfigRejected(config) == config.bands = <<>> \/ config.processors = <<>>

\* main, line 659: load_config returns the configuration or exits with status 1
LoadConfig ==
    /\ pc = "load_config"
    /\ IF ConfigRejected(Config(processors, bands))
       THEN pc' = "exit" /\ exit_code' = 1
       ELSE pc' = "discover" /\ exit_code' = exit_code
    /\ UNCHANGED <<processors, bands, processors_list, proc_query_list, query_order, pi, bi,
                   start_page, depth, url, csv, csv_header, progress_data, phone_models_list,
                   hist>>
    /\ UNCHANGED <<filter_vars, server, disk>>

\* a variant of DiscoveryFails that only looks for the rate limit
C12_OnlyRateLimitFails(r) == r.status = 429

\* main, lines 722-739: the discovery response ends the run: status 429, any other
\* status than 200, a body json.loads rejects, or page.goto raising (status 0)
DiscoveryFails(r) == r.status = 429 \/ r.status # 200 \/ ~r.json

\* what page.goto of the discovery URL may return; status 0 stands for an exception
DiscoveryResponses == Responses \cup {Response(0, FALSE)}

\* main, lines 719-746: the discovery fetch; any failure exits with status 1
Discover ==
    /\ pc = "discover"
    /\ \E r \in DiscoveryResponses :
        /\ hist' = [hist EXCEPT !.discovery = Append(@, r)]
        /\ IF DiscoveryFails(r)
           THEN /\ processors_list' = processors_list
                /\ pc' = "exit"
                /\ exit_code' = 1
           ELSE /\ processors_list' = Catalog
                /\ pc' = "validate"
                /\ exit_code' = exit_code
    /\ UNCHANGED <<processors, bands, proc_query_list, query_order, pi, bi, start_page, depth,
                   url, csv, csv_header, progress_data, phone_models_list>>
    /\ UNCHANGED <<filter_vars, server, disk>>

\* line 770: proc not in processors_list
IsMissing(proc) == proc \notin DOMAIN processors_list

\* a variant of AnyMissing that gives up only when no processor is known
C11_AllMissing(missing_processors) == Len(missing_processors) = Len(processors)

\* line 775: if missing_processors
AnyMissing(missing_processors) == missing_processors # <<>>

\* main, lines 765-780: build proc_query_list; when a processor is missing, print
\* every missing name and exit with status 1
ValidateProcessors ==
    /\ pc = "validate"
    /\ LET present == SelectSeq(processors, LAMBDA p : ~IsMissing(p))
           missing_processors == SelectSeq(processors, IsMissing)
       IN  /\ query_order' = Dedup(present)
           /\ proc_query_list' = [p \in SeqToSet(present) |-> [b \in SeqToSet(bands) |-> <<>>]]
           /\ IF AnyMissing(missing_processors)
              THEN /\ pc' = "exit"
                   /\ exit_code' = 1
                   /\ hist' = [hist EXCEPT !.reported = missing_processors]
              ELSE /\ pc' = "create_csv"
                   /\ exit_code' = exit_code
                   /\ hist' = hist
    /\ UNCHANGED <<processors, bands, processors_list, pi, bi, start_page, depth, url, csv,
                   csv_header, progress_data, phone_models_list>>
    /\ UNCHANGED <<filter_vars, server, disk>>

\* main, lines 809-812 and create_csv_file: the header is written
CreateCsv ==
    /\ pc = "create_csv"
    /\ csv_header' = TRUE
    /\ csv' = <<>>
    /\ pc' = "loop"
    /\ UNCHANGED <<processors, bands, processors_list, proc_query_list, query_order, pi, bi,
                   start_page, depth, url, progress_data, phone_models_list, exit_code, hist>>
    /\ UNCHANGED <<filter_vars, server, disk>>

-----------------------------------------------------------------------------
\* fill_all_proc_pages

\* lines 350-362: the next (processor, band) pair; fill_proc_pages is called with
\* start_page 0
StartQuery ==
    /\ pc = "loop"
    /\ pi <= Len(query_order)
    /\ start_page' = 0
    /\ depth' = 0
    /\ hist' = [hist EXCEPT !.queries = Append(@, [proc |-> proc_name, band |-> band_filter,
                                                   outcome |-> "running"])]
    /\ pc' = "issue"
    /\ UNCHANGED <<processors, bands, processors_list, proc_query_list, query_order, pi, bi,
                   url, csv, csv_header, progress_data, phone_models_list, exit_code>>
    /\ UNCHANGED <<filter_vars, server, disk>>

\* a variant of QueryReturn in which an aborted Query ends the run
C5_AbortEndsRun ==
    /\ pc = "returned"
    /\ pc' = IF hist.queries[Len(hist.queries)].outcome = "aborted" THEN "exit" ELSE "query_sleep"
    /\ depth' = 0
    /\ UNCHANGED <<processors, bands, processors_list, proc_query_list, query_order, pi, bi,
                   start_page, url, csv, csv_header, progress_data, phone_models_list,
                   exit_code, hist>>
    /\ UNCHANGED <<filter_vars, server, disk>>

\* lines 363-370: fill_proc_pages has returned; the page is closed and the loop sleeps
\* fetch_delay_ms
QueryReturn ==
    /\ pc = "returned"
    /\ pc' = "query_sleep"
    /\ depth' = 0
    /\ UNCHANGED <<processors, bands, processors_list, proc_query_list, query_order, pi, bi,
                   start_page, url, csv, csv_header, progress_data, phone_models_list,
                   exit_code, hist>>
    /\ UNCHANGED <<filter_vars, server, disk>>

\* line 370: the delay slept after every Query
QueryDelay == "fetch_delay_ms"

\* lines 370, 350, 354: the sleep ends and the for loops advance, bands inside
\* processors
NextQuery ==
    /\ pc = "query_sleep"
    /\ IF bi < Len(band_keys)
       THEN bi' = bi + 1 /\ pi' = pi
       ELSE bi' = 1 /\ pi' = pi + 1
    /\ hist' = LogSleep(hist, QueryDelay)
    /\ pc' = "loop"
    /\ UNCHANGED <<processors, bands, processors_list, proc_query_list, query_order,
                   start_page, depth, url, csv, csv_header, progress_data, phone_models_list,
                   exit_code>>
    /\ UNCHANGED <<filter_vars, server, disk>>

\* lines 376-378 and main, line 815: every pair has been crawled
LoopEnd ==
    /\ pc = "loop"
    /\ pi > Len(query_order)
    /\ pc' = "extract"
    /\ UNCHANGED <<processors, bands, processors_list, proc_query_list, query_order, pi, bi,
                   start_page, depth, url, csv, csv_header, progress_data, phone_models_list,
                   exit_code, hist>>
    /\ UNCHANGED <<filter_vars, server, disk>>

\* main, line 818
Extract ==
    /\ pc = "extract"
    /\ \E keys \in {band_keys} :
        phone_models_list' = get_proc_phone_models(proc_query_list, keys)
    /\ pc' = "done"
    /\ exit_code' = 0
    /\ UNCHANGED <<processors, bands, processors_list, proc_query_list, query_order, pi, bi,
                   start_page, depth, url, csv, csv_header, progress_data, hist>>
    /\ UNCHANGED <<filter_vars, server, disk>>

-----------------------------------------------------------------------------
\* fill_proc_pages

\* a variant of IsRateLimited that takes 403 for a rate limit too
C9_ForbiddenIsRateLimit(status) == status \in {429, 403}

\* line 228
IsRateLimited(status) == status = 429

\* a variant of IsZeroResults that never sees an empty page
C4_NeverZero(page_results) == page_results < 0

\* line 253: res_json.get('page_results', 0) == 0
IsZeroResults(page_results) == page_results = 0

\* a variant of RetryPage that moves on to the following page
C1_RetryNextPage(page_idx) == page_idx + 1

\* line 232: the page index the call is repeated with after a 429
RetryPage(page_idx) == page_idx

\* a variant of RetryDelay that sleeps the inter-request delay after a 429
C15_RetryAfterPageDelay == "fetch_delay_ms"

\* line 231: the delay slept after a 429
RetryDelay == "fetch_retry_ms"

\* line 277: the delay slept before the next page is fetched
PageDelay == "fetch_delay_ms"

\* line 235: the only status that is not an HTTP error
IsOkStatus(status) == status = 200

\* line 275: next_page_url and '.' in next_page_url
HasNextPage(next_page_url) ==
    next_page_url # <<>> /\ FindFrom(next_page_url, ".", 1) # 0

\* a variant of NewPageIdx that takes the suffix for the index
C3_SuffixIsIndex(next_page_url) == ToInt(LastPiece(next_page_url))

\* a variant of NewPageIdx that falls one page short of the pointer
C23_ShortOfPointer(next_page_url) == ToInt(LastPiece(next_page_url)) - 2

\* a variant of NewPageIdx that goes one page beyond the pointer
C22_BeyondPointer(next_page_url) == ToInt(LastPiece(next_page_url)) + 1

\* line 276: new_page_idx
NewPageIdx(next_page_url) == ToInt(LastPiece(next_page_url)) - 1

\* lines 262-265: the CSV file after the page's models are appended
SavePage(rows, proc, content) ==
    IF content # <<>>
    THEN LET page_models == filter_response(content, "class", "device-name", 1, None)
         IN  IF page_models # <<>> THEN append_processor_to_csv(rows, proc, page_models) ELSE rows
    ELSE rows

\* number of 429 answers in a row that precede the request in flight
RECURSIVE RateLimitsInARow(_)
RateLimitsInARow(answered) ==
    IF answered = <<>> \/ answered[Len(answered)].status # 429 THEN 0
    ELSE 1 + RateLimitsInARow(SubSeq(answered, 1, Len(answered) - 1))

\* the remote service may answer the request in flight with 429: always when
\* hostile, at most MaxRateLimits times in a row for one page when fair
MayRateLimit ==
    server = "hostile"
    \/ RateLimitsInARow(SubSeq(hist.log, 1, Len(hist.log) - 1)) < MaxRateLimits

\* the statuses and bodies page.goto may return
ServedResponses ==
    IF server = "fair"
    THEN {Response(200, TRUE), Response(200, FALSE), Response(429, FALSE), Response(500, FALSE)}
    ELSE Responses

\* the JSON bodies with results the remote service may send for page start_page: any
\* when hostile; when fair, one whose pointer is absent or designates a page index
\* greater than start_page and not beyond MaxPage
ServedBodies ==
    IF server = "fair"
    THEN {b \in PageBodies :
            /\ b.content \in {FragOne, NoContent}
            /\ \/ b.next_page_url = PtrNone
               \/ /\ HasNextPage(b.next_page_url)
                  /\ IsIntLiteral(LastPiece(b.next_page_url))
                  /\ ToInt(LastPiece(b.next_page_url)) - 1 > start_page
                  /\ ToInt(LastPiece(b.next_page_url)) - 1 <= MaxPage}
    ELSE PageBodies

\* lines 204-225: the call builds its URL, counts the request and navigates; the
\* requests of a run against a hostile service are capped
IssueRequest ==
    /\ pc = "issue"
    /\ server = "fair" \/ progress_data.total_requests < MaxRequests
    /\ url' = BuildUrl(processors_list[proc_name], band_filter, start_page)
    /\ progress_data' = Bump(progress_data, "total_requests")
    /\ depth' = depth + 1
    /\ hist' = LogRequest(hist, url')
    /\ pc' = "await"
    /\ UNCHANGED <<processors, bands, processors_list, proc_query_list, query_order, pi, bi,
                   start_page, csv, csv_header, phone_models_list, exit_code>>
    /\ UNCHANGED <<filter_vars, server, disk>>

\* a variant of Caught in which every enclosing fill_proc_pages call counts the
\* exception again
C26_CaughtInEveryCall(pd) == [pd EXCEPT !.errors = @ + depth]

\* lines 280-283: the except clause of the call the exception was raised in counts
\* it and returns; the calls around it resume after line 278 and return
Caught(pd) == Bump(pd, "errors")

\* lines 262-265: append_processor_to_csv is called for the page
AppendCalled(content) ==
    content # <<>> /\ filter_response(content, "class", "device-name", 1, None) # <<>>

\* line 509: whether open(filename, 'a') returns (TRUE) or raises OSError (FALSE)
OpenOutcomes(content) ==
    IF disk = "failing" /\ AppendCalled(content) THEN {TRUE, FALSE} ELSE {TRUE}

\* lines 225, 280-283: page.goto raises
OnException ==
    /\ pc = "await"
    /\ progress_data' = Caught(progress_data)
    /\ hist' = LogOutcome(LogResponse(hist, Response(0, FALSE), "exception", 0, PtrNone,
                                      NoContent, progress_data', Len(csv)), "aborted")
    /\ pc' = "returned"
    /\ UNCHANGED <<processors, bands, processors_list, proc_query_list, query_order, pi, bi,
                   start_page, depth, url, csv, csv_header, phone_models_list, exit_code>>
    /\ UNCHANGED <<filter_vars, server, disk>>

\* a variant of OnRateLimited that calls fill_proc_pages again without sleeping
C14_RetryWithoutSleep ==
    /\ pc = "await"
    /\ MayRateLimit
    /\ \E r \in ServedResponses :
        /\ IsRateLimited(r.status)
        /\ progress_data' = Bump(progress_data, "rate_limited")
        /\ hist' = LogResponse(hist, r, "rate_limited", 0, PtrNone, NoContent,
                               progress_data', Len(csv))
    /\ pc' = "issue"
    /\ UNCHANGED <<processors, bands, processors_list, proc_query_list, query_order, pi, bi,
                   start_page, depth, url, csv, csv_header, phone_models_list, exit_code>>
    /\ UNCHANGED <<filter_vars, server, disk>>

\* lines 228-231: status 429; the counter is bumped and the call sleeps fetch_retry_ms
OnRateLimited ==
    /\ pc = "await"
    /\ MayRateLimit
    /\ \E r \in ServedResponses :
        /\ IsRateLimited(r.status)
        /\ progress_data' = Bump(progress_data, "rate_limited")
        /\ hist' = LogResponse(hist, r, "rate_limited", 0, PtrNone, NoContent,
                               progress_data', Len(csv))
    /\ pc' = "retry_sleep"
    /\ UNCHANGED <<processors, bands, processors_list, proc_query_list, query_order, pi, bi,
                   start_page, depth, url, csv, csv_header, phone_models_list, exit_code>>
    /\ UNCHANGED <<filter_vars, server, disk>>

\* lines 231-233: the retry sleep ends and fill_proc_pages calls itself
RetrySleep ==
    /\ pc = "retry_sleep"
    /\ start_page' = RetryPage(start_page)
    /\ hist' = LogSleep(hist, RetryDelay)
    /\ pc' = "issue"
    /\ UNCHANGED <<processors, bands, processors_list, proc_query_list, query_order, pi, bi,
                   depth, url, csv, csv_header, progress_data, phone_models_list, exit_code>>
    /\ UNCHANGED <<filter_vars, server, disk>>

\* lines 235-238: any other status than 200
OnHttpError ==
    /\ pc = "await"
    /\ \E r \in ServedResponses :
        /\ ~IsRateLimited(r.status)
        /\ ~IsOkStatus(r.status)
        /\ progress_data' = Bump(progress_data, "errors")
        /\ hist' = LogOutcome(LogResponse(hist, r, "http_error", 0, PtrNone, NoContent,
                                          progress_data', Len(csv)), "aborted")
    /\ pc' = "returned"
    /\ UNCHANGED <<processors, bands, processors_list, proc_query_list, query_order, pi, bi,
                   start_page, depth, url, csv, csv_header, phone_models_list, exit_code>>
    /\ UNCHANGED <<filter_vars, server, disk>>

\* lines 245-251: status 200 and a body json.loads rejects
OnDecodeError ==
    /\ pc = "await"
    /\ \E r \in ServedResponses :
        /\ ~IsRateLimited(r.status)
        /\ IsOkStatus(r.status)
        /\ ~r.json
        /\ progress_data' = Bump(progress_data, "errors")
        /\ hist' = LogOutcome(LogResponse(hist, r, "decode_error", 0, PtrNone, NoContent,
                                          progress_data', Len(csv)), "aborted")
    /\ pc' = "returned"
    /\ UNCHANGED <<processors, bands, processors_list, proc_query_list, query_order, pi, bi,
                   start_page, depth, url, csv, csv_header, phone_models_list, exit_code>>
    /\ UNCHANGED <<filter_vars, server, disk>>

\* lines 253-255: page_results is 0 or absent
OnZeroResults ==
    /\ pc = "await"
    /\ \E r \in ServedResponses, page_results \in PageResultCounts :
        /\ ~IsRateLimited(r.status)
        /\ IsOkStatus(r.status)
        /\ r.json
        /\ IsZeroResults(page_results)
        /\ hist' = LogOutcome(LogResponse(hist, r, "zero", page_results, PtrNone, NoContent,
                                          progress_data, Len(csv)), "done")
    /\ pc' = "returned"
    /\ UNCHANGED <<processors, bands, processors_list, proc_query_list, query_order, pi, bi,
                   start_page, depth, url, csv, csv_header, progress_data, phone_models_list,
                   exit_code>>
    /\ UNCHANGED <<filter_vars, server, disk>>

\* lines 257-283: a page with results. res_json['content'] raises KeyError when the
\* key is absent; open() in append_processor_to_csv raises OSError on a failing disk,
\* after the content is stored and counted; int() raises ValueError on a suffix that
\* is no number; all end in the except clause of line 280.
OnPage ==
    /\ pc = "await"
    /\ \E r \in ServedResponses, page_results \in PageResultCounts, res_json \in ServedBodies,
          opened \in BOOLEAN :
        LET content == res_json.content
            next_page_url == res_json.next_page_url
            fetched == Bump(progress_data, "pages_fetched")
        IN  /\ ~IsRateLimited(r.status)
            /\ IsOkStatus(r.status)
            /\ r.json
            /\ ~IsZeroResults(page_results)
            /\ content = NoContent => opened
            /\ content # NoContent => opened \in OpenOutcomes(content)
            /\ IF content = NoContent
               THEN /\ progress_data' = Caught(progress_data)
                    /\ hist' = LogOutcome(LogResponse(hist, r, "key_error", page_results,
                                                      next_page_url, content, progress_data',
                                                      Len(csv)), "aborted")
                    /\ pc' = "returned"
                    /\ UNCHANGED <<proc_query_list, csv, start_page>>
               ELSE IF ~opened
               THEN /\ proc_query_list' = StoreContent(proc_query_list, proc_name, band_filter,
                                                       start_page, content)
                    /\ progress_data' = Caught(fetched)
                    /\ hist' = LogOutcome(LogResponse(hist, r, "io_error", page_results,
                                                      next_page_url, content, progress_data',
                                                      Len(csv)), "aborted")
                    /\ pc' = "returned"
                    /\ UNCHANGED <<csv, start_page>>
               ELSE /\ proc_query_list' = StoreContent(proc_query_list, proc_name, band_filter,
                                                       start_page, content)
                    /\ csv' = SavePage(csv, proc_name, content)
                    /\ IF ~HasNextPage(next_page_url)
                       THEN /\ progress_data' = fetched
                            /\ start_page' = start_page
                            /\ hist' = LogOutcome(LogResponse(hist, r, "page", page_results,
                                                              next_page_url, content, fetched,
                                                              Len(csv')), "done")
                            /\ pc' = "returned"
                       ELSE IF IsIntLiteral(LastPiece(next_page_url))
                       THEN /\ progress_data' = fetched
                            /\ start_page' = NewPageIdx(next_page_url)
                            /\ hist' = LogResponse(hist, r, "page", page_results,
                                                   next_page_url, content, fetched, Len(csv'))
                            /\ pc' = "delay_sleep"
                       ELSE /\ progress_data' = Caught(fetched)
                            /\ start_page' = start_page
                            /\ hist' = LogOutcome(LogResponse(hist, r, "page", page_results,
                                                              next_page_url, content,
                                                              Caught(fetched),
                                                              Len(csv')), "aborted")
                            /\ pc' = "returned"
    /\ UNCHANGED <<processors, bands, processors_list, query_order, pi, bi, depth, url,
                   csv_header, phone_models_list, exit_code>>
    /\ UNCHANGED <<filter_vars, server, disk>>

\* lines 277-278: the inter-request sleep ends and fill_proc_pages calls itself
DelaySleep ==
    /\ pc = "delay_sleep"
    /\ hist' = LogSleep(hist, PageDelay)
    /\ pc' = "issue"
    /\ UNCHANGED <<processors, bands, processors_list, proc_query_list, query_order, pi, bi,
                   start_page, depth, url, csv, csv_header, progress_data, phone_models_list,
                   exit_code>>
    /\ UNCHANGED <<filter_vars, server, disk>>

-----------------------------------------------------------------------------

Next ==
    \/ LoadConfig
    \/ Discover
    \/ ValidateProcessors
    \/ CreateCsv
    \/ StartQuery
    \/ IssueRequest
    \/ OnException
    \/ OnRateLimited
    \/ RetrySleep
    \/ OnHttpError
    \/ OnDecodeError
    \/ OnZeroResults
    \/ OnPage
    \/ DelaySleep
    \/ QueryReturn
    \/ NextQuery
    \/ LoopEnd
    \/ Extract

Spec == Init /\ [][Next]_vars

-----------------------------------------------------------------------------
\* A run against a fair remote service: it answers 429 at most MaxRateLimits times
\* in a row for one page, and every next-page pointer it sends designates a page
\* index greater than the index just fetched, up to MaxPage. The single coroutine
\* is run to completion by the event loop: every sleep ends and every page.goto
\* returns or raises.

FairConfigs == {Config(<<"ChipX">>, <<"n78">>)}

InitFair == Start(FairConfigs, "fair", "sound")

SpecFair == InitFair /\ [][Next]_vars /\ WF_vars(Next)

\* A run on a machine whose disk may fail: open(filename, 'a') may raise OSError at
\* any call of append_processor_to_csv.
DiskConfigs == {Config(<<"ChipX">>, <<"n77", "n78">>)}

InitDisk == Start(DiskConfigs, "hostile", "failing")

SpecDisk == InitDisk /\ [][Next]_vars

-----------------------------------------------------------------------------
\* filter_response taken on its own: one call on a fragment drawn from a bounded
\* set of fragments

\* Largest number of top-level elements of a fragment handed to filter_response.
MaxElements == 2

\* the elements fragments are made of: two matches with the same text and different
\* value attributes, a match whose first child is blank text, an element that does
\* not match, a match without children, and a match nested in a match
FilterElements ==
    {ElemValue("device-name", "1", <<Elem("", <<TextNode(NameAx)>>)>>),
     ElemValue("device-name", "2", <<Elem("", <<TextNode(NameAx)>>)>>),
     Elem("device-name", <<TextNode(<<" ">>), Elem("", <<TextNode(NameB)>>)>>),
     Elem("other", <<TextNode(NameB)>>),
     ElemValue("device-name", "5", <<>>),
     ElemValue("device-name", "6", <<ElemValue("device-name", "7", <<TextNode(NameAy)>>)>>)}

FilterFragments == UNION {[1..n -> FilterElements] : n \in 0..MaxElements}

\* the calls: child_level 0 and 1 are the levels the program passes (lines 746, 434),
\* attr_to_add is absent or 'value'
FilterCalls ==
    [html : FilterFragments, child_level : {0, 1}, attr_to_add : {None, "value"}]

InitFilter ==
    /\ pc = "filter"
    /\ processors = <<>>
    /\ bands = <<>>
    /\ processors_list = <<>>
    /\ proc_query_list = <<>>
    /\ query_order = <<>>
    /\ pi = 1
    /\ bi = 1
    /\ start_page = 0
    /\ depth = 0
    /\ url = NoUrl
    /\ csv = <<>>
    /\ csv_header = FALSE
    /\ progress_data = [pages_fetched |-> 0, total_requests |-> 0, rate_limited |-> 0, errors |-> 0]
    /\ phone_models_list = <<>>
    /\ exit_code = -1
    /\ hist = [log |-> <<>>, queries |-> <<>>, discovery |-> <<>>, reported |-> <<>>,
               slept |-> <<>>]
    /\ filter_args \in FilterCalls
    /\ filter_map = <<>>
    /\ server = "hostile"
    /\ disk = "sound"

\* lines 153-181: the call returns
FilterResponse ==
    /\ pc = "filter"
    /\ filter_map' = filter_response(filter_args.html, "class", "device-name",
                                     filter_args.child_level, filter_args.attr_to_add)
    /\ pc' = "filtered"
    /\ UNCHANGED <<processors, bands, processors_list, proc_query_list, query_order, pi, bi,
                   start_page, depth, url, csv, csv_header, progress_data, phone_models_list,
                   exit_code, hist, filter_args, server, disk>>

NextFilter == FilterResponse

SpecFilter == InitFilter /\ [][NextFilter]_vars

-----------------------------------------------------------------------------
\* Vocabulary of the properties

Log == hist.log

Queries == hist.queries

QueryOf(j) == Queries[Log[j].q]

SameQuery(i, j) == Log[i].q = Log[j].q

FirstOfQuery(j) == j = 1 \/ Log[j - 1].q # Log[j].q

LastOfQuery(j) == \A k \in (j + 1)..Len(Log) : Log[k].q # Log[j].q

\* a fill_proc_pages call of the running Query is active or about to be made
Paginating == pc \in {"issue", "await", "retry_sleep", "delay_sleep"}

\* Query q has ended and issues no request any more
QueryOver(q) == Queries[q].outcome # "running" /\ (q = Len(Queries) => ~Paginating)

\* what the server sent in answer to request j
Got429(j) == Log[j].ev # "pending" /\ Log[j].status = 429

GotJson200(j) == Log[j].ev # "pending" /\ Log[j].status = 200 /\ Log[j].json

GotZero(j) == GotJson200(j) /\ Log[j].page_results = 0

GotResults(j) == GotJson200(j) /\ Log[j].page_results > 0

\* the piece of a pointer after its last '.', when the pointer has a '.'
HasNumericSuffix(ptr) == HasNextPage(ptr) /\ IsIntLiteral(LastPiece(ptr))

Suffix(ptr) == ToInt(LastPiece(ptr))

\* a page with results whose body is complete and whose pointer is absent or numeric
GotGoodPage(j) ==
    /\ GotResults(j)
    /\ Log[j].content # NoContent
    /\ (Log[j].ptr = PtrNone \/ HasNumericSuffix(Log[j].ptr))

NamesOn(content) == SeqToSet(filter_response(content, "class", "device-name", 1, None))

-----------------------------------------------------------------------------
\* C1: when the server answers the request for page index p of a Query with 429
\* m times and then with a complete page, the Paginator has issued exactly m + 1
\* requests, all for the same URL and page index; the rate-limit counter has grown
\* by exactly m, the error counter has not grown, and the page was processed once
\* (fetched-pages counter + 1, one batch of rows appended).
C1_RateLimitedThenSuccess ==
    \A i \in DOMAIN Log : \A j \in i..Len(Log) :
        (/\ GotGoodPage(j)
         /\ \A k \in i..(j - 1) : Got429(k) /\ SameQuery(k, j))
        => /\ \A k \in i..j : Log[k].url = Log[j].url /\ Log[k].start_page = Log[j].start_page
           /\ Log[j].after.total_requests = Log[i].before.total_requests + (j - i) + 1
           /\ Log[j].after.rate_limited = Log[i].before.rate_limited + (j - i)
           /\ Log[j].after.errors = Log[i].before.errors
           /\ Log[j].after.pages_fetched = Log[i].before.pages_fetched + 1
           /\ Log[j].rows = Log[i].rows_before + Cardinality(NamesOn(Log[j].content))

\* two 429 answers, then the page
C1_Witness ==
    \E j \in DOMAIN Log :
        /\ j >= 3
        /\ GotGoodPage(j)
        /\ NamesOn(Log[j].content) # {}
        /\ \A k \in (j - 2)..(j - 1) : Got429(k) /\ SameQuery(k, j)

\* C2 (as claimed): there is a maximum number N of consecutive 429 answers for one
\* page; the N-th of them aborts the Query with the error counter incremented, and no
\* further request follows it in that Query.
RetriesBoundedBy(N) ==
    \A j \in DOMAIN Log :
        (j >= N /\ \A k \in (j - N + 1)..j : Got429(k) /\ SameQuery(k, j))
        => /\ Log[j].after.errors = Log[j].before.errors + 1
           /\ QueryOver(Log[j].q)
           /\ LastOfQuery(j)

C2_RetryBounded == \E N \in 1..MaxRequests : RetriesBoundedBy(N)

-----------------------------------------------------------------------------
\* C3 (as claimed): after a page with results whose next_page_url ends in the numeric
\* suffix k >= 1, the next request of the Query is for the same processor and band
\* and its URL carries the page component page.k.
C3_EverySuffixIsPageComponent ==
    \A j \in DOMAIN Log :
        (/\ j < Len(Log)
         /\ SameQuery(j, j + 1)
         /\ GotResults(j)
         /\ Log[j].content # NoContent
         /\ HasNumericSuffix(Log[j].ptr)
         /\ Suffix(Log[j].ptr) >= 1)
        => Log[j + 1].url = [Log[j].url EXCEPT !.page_component = <<Suffix(Log[j].ptr)>>]

\* C3 (amended): after such a page the Paginator sleeps and issues exactly one next
\* request, for the same processor and band and for page index k - 1; its URL carries
\* page.k when k >= 2 and no page component when k = 1. When that request is answered
\* with page_results = 0 the Query is Done and issues nothing more: two fetches when
\* the page was the Query's first.
C3_NextRequestFollowsPointer ==
    \A j \in DOMAIN Log :
        (/\ GotResults(j)
         /\ Log[j].content # NoContent
         /\ HasNumericSuffix(Log[j].ptr)
         /\ Suffix(Log[j].ptr) >= 1)
        => LET k == Suffix(Log[j].ptr)
           IN  IF j = Len(Log)
               THEN /\ pc \in {"delay_sleep", "issue"}
                    /\ start_page = k - 1
                    /\ Queries[Log[j].q].outcome = "running"
               ELSE /\ SameQuery(j, j + 1)
                    /\ Log[j + 1].start_page = k - 1
                    /\ Log[j + 1].url =
                         [Log[j].url EXCEPT !.page_component = IF k >= 2 THEN <<k>> ELSE <<>>]
                    /\ GotZero(j + 1)
                       => /\ LastOfQuery(j + 1)
                          /\ QueryOver(Log[j].q)
                          /\ Queries[Log[j].q].outcome = "done"
                          /\ FirstOfQuery(j)
                             => Cardinality({n \in DOMAIN Log : SameQuery(n, j)}) = 2

\* a pointer ending in .3, then page_results = 0: two fetches, the second for page.3
C3_Witness ==
    \E j \in DOMAIN Log :
        /\ j < Len(Log)
        /\ FirstOfQuery(j)
        /\ GotResults(j)
        /\ Log[j].ptr = PtrThree
        /\ GotZero(j + 1)
        /\ Log[j + 1].url.page_component = <<3>>
        /\ QueryOver(Log[j].q)

-----------------------------------------------------------------------------
\* C4: when the first response of a Query is a 200 with JSON and a result count of
\* zero, the Query is Done after that one fetch: no further request, nothing stored
\* for the (processor, band), no row appended, and no counter but the request
\* counter changes.
C4_ZeroResultsEndsQuery ==
    \A j \in DOMAIN Log :
        (FirstOfQuery(j) /\ GotZero(j))
        => /\ LastOfQuery(j)
           /\ QueryOver(Log[j].q)
           /\ QueryOf(j).outcome = "done"
           /\ proc_query_list[QueryOf(j).proc][QueryOf(j).band] = <<>>
           /\ Log[j].rows = Log[j].rows_before
           /\ Log[j].after = [Log[j].before EXCEPT !.total_requests = @ + 1]

C4_Witness ==
    \E j \in DOMAIN Log : FirstOfQuery(j) /\ GotZero(j) /\ Len(csv) > 0

-----------------------------------------------------------------------------
\* the (processor, band) pairs in the order of the loops of lines 350 and 354
NumPairs == Len(query_order) * Len(band_keys)

PairAt(n) ==
    [proc |-> query_order[((n - 1) \div Len(band_keys)) + 1],
     band |-> band_keys[((n - 1) % Len(band_keys)) + 1]]

\* request j was answered with an HTTP error status or with a body that is no JSON
GotErrorStatus(j) == Log[j].ev # "pending" /\ Log[j].status \notin {0, 200, 429}

GotBadJson(j) == Log[j].ev # "pending" /\ Log[j].status = 200 /\ ~Log[j].json

\* C5: an HTTP error status or a body that is no JSON increments the error counter
\* by exactly one and ends that Query (no further request for it); the run goes on:
\* the Queries started are the pairs of the cross-product in order, each from page 0,
\* after an aborted Query the loop moves to the following pair, and a run that
\* finishes has started every pair; the rows written before are still there.
C5_ErrorAbortsOnlyThatQuery ==
    /\ \A j \in DOMAIN Log :
        (GotErrorStatus(j) \/ GotBadJson(j))
        => /\ Log[j].after = [Log[j].before EXCEPT !.total_requests = @ + 1, !.errors = @ + 1]
           /\ Log[j].rows = Log[j].rows_before
           /\ Len(csv) >= Log[j].rows
           /\ LastOfQuery(j)
           /\ QueryOver(Log[j].q)
           /\ QueryOf(j).outcome = "aborted"
           /\ pc # "exit"
           /\ (Log[j].q = Len(Queries) /\ pc = "loop") => (pi - 1) * Len(band_keys) + bi = Log[j].q + 1
    /\ \A n \in DOMAIN Queries :
        /\ n <= NumPairs
        /\ Queries[n].proc = PairAt(n).proc
        /\ Queries[n].band = PairAt(n).band
    /\ \A j \in DOMAIN Log :
        FirstOfQuery(j) => Log[j].start_page = 0 /\ Log[j].url.page_component = <<>>
    /\ pc \in {"extract", "done"} => Len(Queries) = NumPairs

\* a Query aborted by an error, rows written before it, and a later Query started
C5_Witness ==
    \E j \in DOMAIN Log :
        /\ GotErrorStatus(j) \/ GotBadJson(j)
        /\ Log[j].rows_before > 0
        /\ Len(Queries) > Log[j].q
        /\ \E k \in DOMAIN Log : k > j /\ Log[k].q = Log[j].q + 1

-----------------------------------------------------------------------------
\* C6 (as claimed): the persisted rows never hold two rows with the same
\* (Processor, Full_Name).
C6_NoDuplicateRows ==
    \A i \in DOMAIN csv : \A j \in DOMAIN csv :
        (csv[i].Processor = csv[j].Processor /\ csv[i].Full_Name = csv[j].Full_Name) => i = j

-----------------------------------------------------------------------------
\* the snapshot of every processor
Snapshot(proc_list) == get_proc_phone_models(proc_list, band_keys)

\* the contents stored for processor p, under any band and page
StoredContents(p) ==
    UNION {SeqToSet([i \in DOMAIN proc_query_list[p][b] |-> proc_query_list[p][b][i].content]) :
           b \in DOMAIN proc_query_list[p]}

\* the slot (p, b, idx) is empty or holds content
SlotFreeOrSame(p, b, idx, content) ==
    \A i \in DOMAIN proc_query_list[p][b] :
        proc_query_list[p][b][i].idx = idx => proc_query_list[p][b][i].content = content

\* C7: recording a page content that is already recorded for the processor (at the
\* same page again, or at a page not stored before) leaves the snapshot of
\* get_proc_phone_models unchanged.
C7_SnapshotIdempotent ==
    [][(/\ pc = "await"
        /\ hist'.log[Len(Log)].ev = "page"
        /\ hist'.log[Len(Log)].content \in StoredContents(proc_name)
        /\ SlotFreeOrSame(proc_name, band_filter, start_page, hist'.log[Len(Log)].content))
       => Snapshot(proc_query_list') = Snapshot(proc_query_list)]_vars

\* one content recorded at two pages of a Query whose band holds another content too
C7_Witness ==
    /\ \E i \in DOMAIN Log : \E j \in DOMAIN Log :
        /\ i < j
        /\ SameQuery(i, j)
        /\ Log[i].ev = "page" /\ Log[j].ev = "page"
        /\ Log[i].content = Log[j].content
        /\ NamesOn(Log[j].content) # {}
        /\ Log[i].start_page # Log[j].start_page
    /\ \E p \in DOMAIN proc_query_list : Cardinality(StoredContents(p)) > 1

-----------------------------------------------------------------------------
\* C8 (as claimed): a page whose next-page pointer has no numeric suffix, with or
\* without a '.', ends the Query as Done: no further request, error counter unchanged.
C8_MalformedPointerEndsQuietly ==
    \A j \in DOMAIN Log :
        (/\ GotResults(j)
         /\ Log[j].content # NoContent
         /\ Log[j].ptr # PtrNone
         /\ ~HasNumericSuffix(Log[j].ptr))
        => /\ Log[j].after.errors = Log[j].before.errors
           /\ LastOfQuery(j)
           /\ QueryOver(Log[j].q)
           /\ QueryOf(j).outcome = "done"

-----------------------------------------------------------------------------
\* C9 (as claimed): a 403 is retried like a rate limit: no error is counted, the
\* Paginator waits the retry delay and fetches the same page index again.
C9_ForbiddenIsRetried ==
    \A j \in DOMAIN Log :
        (Log[j].ev # "pending" /\ Log[j].status = 403)
        => /\ Log[j].after.errors = Log[j].before.errors
           /\ IF j = Len(Log)
              THEN pc \in {"retry_sleep", "issue"} /\ start_page = Log[j].start_page
              ELSE SameQuery(j, j + 1) /\ Log[j + 1].url = Log[j].url

\* C9 (amended): a 403 is handled as an HTTP error: the error counter grows by one,
\* the rate-limit counter does not, the Paginator neither waits nor fetches the page
\* again, and the Query is aborted on the first 403.
C9_ForbiddenAborts ==
    \A j \in DOMAIN Log :
        (Log[j].ev # "pending" /\ Log[j].status = 403)
        => /\ Log[j].after = [Log[j].before EXCEPT !.total_requests = @ + 1, !.errors = @ + 1]
           /\ LastOfQuery(j)
           /\ QueryOver(Log[j].q)
           /\ QueryOf(j).outcome = "aborted"

\* a 403 on the second page of a Query, and the Query after it under way
C9_Witness ==
    \E j \in DOMAIN Log :
        /\ Log[j].status = 403
        /\ ~FirstOfQuery(j)
        /\ Len(Queries) > Log[j].q

-----------------------------------------------------------------------------
\* C10 (as claimed): classification is by status class: 2xx with a JSON body is a
\* Success and is processed as a page, 2xx with another body is a DecodeError, 429 is
\* RateLimited, every other status is an HTTP error.
C10_ClassifiedByStatusClass ==
    \A j \in DOMAIN Log :
        (Log[j].ev \notin {"pending", "exception"})
        => LET ok == Log[j].status >= 200 /\ Log[j].status <= 299
           IN  /\ (ok /\ Log[j].json) => Log[j].ev \in {"zero", "page", "key_error"}
               /\ (ok /\ ~Log[j].json) => Log[j].ev = "decode_error"
               /\ Log[j].status = 429 => Log[j].ev = "rate_limited"
               /\ (~ok /\ Log[j].status # 429) => Log[j].ev = "http_error"

-----------------------------------------------------------------------------
\* C11: when the discovery succeeded and at least one configured processor name is
\* absent from the catalog, the run ends with exit status 1 after reporting every
\* missing name, in configuration order: no paginated request has been issued, the
\* CSV file has not been created and no row has been written.
C11_MissingProcessorAborts ==
    (/\ pc \notin {"discover", "validate"}
     /\ hist.discovery # <<>>
     /\ hist.discovery[1].status = 200 /\ hist.discovery[1].json
     /\ \E i \in DOMAIN processors : processors[i] \notin DOMAIN processors_list)
    => /\ pc = "exit"
       /\ exit_code = 1
       /\ hist.reported = SelectSeq(processors, LAMBDA p : p \notin DOMAIN processors_list)
       /\ Log = <<>>
       /\ Queries = <<>>
       /\ progress_data.total_requests = 0
       /\ csv = <<>>
       /\ ~csv_header

\* two unknown names around a known one, both reported
C11_Witness ==
    /\ pc = "exit"
    /\ Len(hist.reported) = 2
    /\ \E i \in DOMAIN processors : processors[i] \in DOMAIN processors_list

-----------------------------------------------------------------------------
\* C12: when the discovery fetch is answered with 429, with any other status than
\* 200, with a body that is not JSON, or raises, the run ends with exit status 1:
\* the discovery request was made once, no paginated request has been issued, the
\* CSV file has not been created and no row has been written.
C12_DiscoveryFailureAborts ==
    /\ Len(hist.discovery) <= 1
    /\ (/\ hist.discovery # <<>>
        /\ (hist.discovery[1].status # 200 \/ ~hist.discovery[1].json))
       => /\ pc = "exit"
          /\ exit_code = 1
          /\ processors_list = <<>>
          /\ Log = <<>>
          /\ Queries = <<>>
          /\ progress_data.total_requests = 0
          /\ csv = <<>>
          /\ ~csv_header

\* the discovery answered 200 with a body json.loads rejects
C12_Witness ==
    /\ pc = "exit"
    /\ hist.discovery = <<Response(200, FALSE)>>

-----------------------------------------------------------------------------
\* position of the first occurrence of x in the sequence s
FirstPos(s, x) == CHOOSE i \in DOMAIN s : s[i] = x /\ \A k \in 1..(i - 1) : s[k] # x

\* the distinct (processor, band) pairs of the configuration
CrossProduct == {[proc |-> p, band |-> b] : p \in SeqToSet(processors), b \in SeqToSet(bands)}

\* processor-major order of the pairs, by first occurrence in the configuration
PairBefore(a, b) ==
    \/ FirstPos(processors, a.proc) < FirstPos(processors, b.proc)
    \/ a.proc = b.proc /\ FirstPos(bands, a.band) < FirstPos(bands, b.band)

\* C13: the Orchestrator starts the Queries one after the other, the n-th Query
\* being the n-th distinct (processor, band) pair of the cross-product in
\* processor-major order (all bands of a processor before the next processor); every
\* Query starts at page 0 and only after the Query before it is Done or Aborted, and
\* a crawl that has ended has started exactly one Query for every pair.
C13_OneQueryPerPairInOrder ==
    /\ \A n \in DOMAIN Queries :
        LET pair == [proc |-> Queries[n].proc, band |-> Queries[n].band]
        IN  /\ pair \in CrossProduct
            /\ Cardinality({c \in CrossProduct : PairBefore(c, pair)}) = n - 1
            /\ n < Len(Queries) => Queries[n].outcome \in {"done", "aborted"}
    /\ \A j \in DOMAIN Log :
        /\ FirstOfQuery(j) => Log[j].start_page = 0 /\ Log[j].url.page_component = <<>>
        /\ j > 1 => /\ Log[j].q \in {Log[j - 1].q, Log[j - 1].q + 1}
                    /\ Log[j - 1].ev # "pending"
    /\ pc \in {"extract", "done"}
       => /\ Len(Queries) = Cardinality(CrossProduct)
          /\ \A n \in DOMAIN Queries : Queries[n].outcome \in {"done", "aborted"}

\* two processors under two bands: the fourth Query started, the three before over
C13_Witness ==
    /\ Len(Queries) = 4
    /\ Queries[2].proc = Queries[1].proc /\ Queries[2].band # Queries[1].band
    /\ Queries[3].proc # Queries[1].proc /\ Queries[3].band = Queries[1].band
    /\ Len(Log) = 3

-----------------------------------------------------------------------------
\* the content of request j is held in the page store under the Query's processor
\* and band at the page index of the request
StoredIn(store, j) ==
    \E i \in DOMAIN store[QueryOf(j).proc][QueryOf(j).band] :
        store[QueryOf(j).proc][QueryOf(j).band][i] =
            [idx |-> Log[j].start_page, content |-> Log[j].content]

\* C14: at most one page fetch is in flight: only the latest request can be without
\* a response, and a request is issued only after the response to the request before
\* it was processed in full (its content stored, its rows persisted, the counters
\* updated) and the sleep that follows it has completed.
C14_OneFetchInFlight ==
    /\ pc = "await" <=> (Log # <<>> /\ Log[Len(Log)].ev = "pending")
    /\ \A j \in DOMAIN Log :
        /\ Log[j].ev = "pending" => j = Len(Log)
        /\ j > 1
           => /\ Log[j - 1].ev # "pending"
              /\ Log[j].before = Log[j - 1].after
              /\ Log[j].rows_before = Log[j - 1].rows
              /\ (GotResults(j - 1) /\ Log[j - 1].content # NoContent)
                 => StoredIn(Log[j].store, j - 1)
              /\ Log[j].slept # <<>>

\* a third request in flight, the first answered with 429 and the second with a page
\* of one name that points to a next page
C14_Witness ==
    /\ Len(Log) = 3
    /\ pc = "await"
    /\ Got429(1)
    /\ GotResults(2) /\ Log[2].rows = 1 /\ SameQuery(2, 3)

-----------------------------------------------------------------------------
\* C15 (as claimed): between every two consecutive paginated requests the
\* inter-request delay (fetch_delay_ms) has been slept, whatever the first of them
\* was answered with.
C15_DelayBetweenAllRequests ==
    \A j \in DOMAIN Log : j > 1 => \E i \in DOMAIN Log[j].slept : Log[j].slept[i] = "fetch_delay_ms"

\* C15 (amended): between every two consecutive paginated requests exactly one sleep
\* completes: the retry delay (fetch_retry_ms) when the earlier request was answered
\* with 429, the inter-request delay (fetch_delay_ms) otherwise; the first request of
\* a Query follows the last request of the Query before it by the inter-request
\* delay whatever that Query's outcome was.
C15_OneSleepBetweenRequests ==
    \A j \in DOMAIN Log :
        /\ j = 1 => Log[j].slept = <<>>
        /\ j > 1 => Log[j].slept = <<IF Got429(j - 1) THEN "fetch_retry_ms" ELSE "fetch_delay_ms">>
        /\ (j > 1 /\ FirstOfQuery(j)) => Log[j].slept = <<"fetch_delay_ms">>

\* an aborted Query, then a Query whose first request is answered with 429 and
\* retried
C15_Witness ==
    /\ Len(Log) = 3
    /\ Queries[1].outcome = "aborted"
    /\ FirstOfQuery(2)
    /\ Got429(2)
    /\ Log[3].slept = <<"fetch_retry_ms">>

-----------------------------------------------------------------------------
\* the display names on the pages with results received for processor p
NamesReceived(p) ==
    UNION {NamesOn(Log[j].content) :
           j \in {k \in DOMAIN Log : /\ GotResults(k)
                                     /\ Log[k].content # NoContent
                                     /\ QueryOf(k).proc = p}}

\* C16 (as claimed): at the end of the run the snapshot of every processor is exactly
\* the set of the display names of all pages with results fetched for it, under any
\* band and whatever page indices the server directed.
C16_SnapshotHoldsEveryName ==
    pc = "done" => \A p \in DOMAIN phone_models_list : phone_models_list[p] = NamesReceived(p)

-----------------------------------------------------------------------------
\* the positions in the CSV file of the rows appended for request j
BatchOf(j) == (Log[j].rows_before + 1)..Log[j].rows

HasSpace(s) == \E i \in DOMAIN s : s[i] = " "

\* the row carries the processor of the Query of request j and a display name of
\* the page, Brand being the part before the first space
RowFromPage(row, j) ==
    /\ row.Processor = QueryOf(j).proc
    /\ row.Full_Name \in NamesOn(Log[j].content)
    /\ ~HasSpace(row.Brand)
    /\ HasSpace(row.Full_Name) => row.Full_Name = row.Brand \o <<" ">> \o row.Model
    /\ ~HasSpace(row.Full_Name) => row.Brand = row.Full_Name

\* C17 (as claimed): every row written carries the processor of the Query that
\* produced the page, the display name as Full_Name, its first token as Brand and the
\* remainder as Model: Full_Name = Brand + ' ' + Model when the name has several
\* tokens, and Model is empty when the name is a single token.
C17_ModelIsRemainder ==
    \A j \in DOMAIN Log : \A i \in BatchOf(j) :
        /\ i \in DOMAIN csv
        /\ RowFromPage(csv[i], j)
        /\ ~HasSpace(csv[i].Full_Name) => csv[i].Model = <<>>

\* C17 (amended): as claimed for names of several tokens; for a name that is a single
\* token, Brand and Model are both the whole name.
C17_SingleTokenIsBrandAndModel ==
    \A j \in DOMAIN Log : \A i \in BatchOf(j) :
        /\ i \in DOMAIN csv
        /\ RowFromPage(csv[i], j)
        /\ ~HasSpace(csv[i].Full_Name) => csv[i].Model = csv[i].Full_Name

\* a batch with a row for a name of two tokens and a row for a name of one token
C17_Witness ==
    \E j \in DOMAIN Log : \E a, b \in BatchOf(j) :
        /\ HasSpace(csv[a].Full_Name)
        /\ ~HasSpace(csv[b].Full_Name)

-----------------------------------------------------------------------------
\* the (Brand, Model) key of row a is not greater than that of row b
KeyNotGreater(a, b) ==
    IF a.Brand # b.Brand THEN StrLess(a.Brand, b.Brand)
    ELSE a.Model = b.Model \/ StrLess(a.Model, b.Model)

\* C18: the header row is written before any paginated request is issued and before
\* any data row, and the rows of each batch are in non-decreasing (Brand, Model)
\* order.
C18_HeaderFirstBatchesSorted ==
    /\ (Log # <<>> \/ Queries # <<>> \/ csv # <<>>) => csv_header
    /\ \A j \in DOMAIN Log : \A a, b \in BatchOf(j) :
        a < b => KeyNotGreater(csv[a], csv[b])

\* a batch of two rows under the header
C18_Witness ==
    /\ csv_header
    /\ \E j \in DOMAIN Log : \E a, b \in BatchOf(j) : a < b /\ csv[a].Brand # csv[b].Brand

-----------------------------------------------------------------------------
\* C19: while the crawl runs the CSV file only grows: every step, whatever the
\* response (page, zero results, rate limit, HTTP error, decode error, exception),
\* leaves the rows written before as a prefix of the rows written after.
C19_AppendOnly ==
    [][/\ Len(csv') >= Len(csv)
       /\ SubSeq(csv', 1, Len(csv)) = csv
       /\ csv_header => csv_header']_vars

\* rows written by one request are still there after a later request was answered
\* with an error, and more rows follow them
C19_Witness ==
    \E i, j, k \in DOMAIN Log :
        /\ i < j /\ j < k
        /\ Log[i].rows > Log[i].rows_before
        /\ Log[j].ev \in {"http_error", "decode_error", "exception", "rate_limited"}
        /\ Log[k].rows > Log[k].rows_before

-----------------------------------------------------------------------------
\* the elements of the fragment that match the filter, and the text each yields
Matches == FindAll(filter_args.html, "class", "device-name")

TextOf(element) == GetText(Descend(element, filter_args.child_level))

SomeTextEmpty == \E i \in DOMAIN Matches : TextOf(Matches[i]) = <<>>

\* number of entries of what filter_response returned
Entries == IF filter_args.attr_to_add = None THEN Len(filter_map) ELSE Cardinality(DOMAIN filter_map)

\* C20 (as claimed): for a fragment with N matching elements filter_response returns
\* exactly N entries when every match yields a non-empty text and fewer than N when
\* at least one yields an empty text, as a list and as a mapping.
C20_ExactlyNInBothModes ==
    pc = "filtered"
    => /\ ~SomeTextEmpty => Entries = Len(Matches)
       /\ SomeTextEmpty => Entries < Len(Matches)

\* C20 (amended): as a list, filter_response returns one entry per match with a
\* non-empty text, in document order: exactly N when no text is empty, fewer when one
\* is. As a mapping it returns one entry per distinct non-empty text, with the
\* attribute of the last match of that text ('' when the match has none): at most N
\* entries, fewer than N when a text is empty or two matches have the same text.
C20_EntriesByMode ==
    pc = "filtered"
    => LET full == {i \in DOMAIN Matches : TextOf(Matches[i]) # <<>>}
           last(t) == CHOOSE i \in full :
                          TextOf(Matches[i]) = t /\ \A k \in full : TextOf(Matches[k]) = t => k <= i
       IN  IF filter_args.attr_to_add = None
           THEN /\ Len(filter_map) = Cardinality(full)
                /\ \A n \in DOMAIN filter_map :
                     \E i \in full : /\ filter_map[n] = TextOf(Matches[i])
                                     /\ Cardinality({k \in full : k < i}) = n - 1
                /\ ~SomeTextEmpty => Entries = Len(Matches)
                /\ SomeTextEmpty => Entries < Len(Matches)
           ELSE /\ DOMAIN filter_map = {TextOf(Matches[i]) : i \in full}
                /\ \A t \in DOMAIN filter_map :
                     LET element == Matches[last(t)]
                     IN  filter_map[t] = IF filter_args.attr_to_add \in DOMAIN element.attrs
                                         THEN element.attrs[filter_args.attr_to_add] ELSE ""
                /\ Entries <= Len(Matches)
                /\ (SomeTextEmpty \/ \E i, k \in full : i # k /\ TextOf(Matches[i]) = TextOf(Matches[k]))
                   => Entries < Len(Matches)

\* a mapping of one entry returned for two matches of the same non-empty text, with
\* the attribute of the second
C20_Witness ==
    /\ pc = "filtered"
    /\ filter_args.attr_to_add # None
    /\ Len(Matches) = 2
    /\ ~SomeTextEmpty
    /\ Entries = 1
    /\ \A t \in DOMAIN filter_map : filter_map[t] = "2"

-----------------------------------------------------------------------------
\* C21 (as claimed): with an empty list of bands the run still crawls: it runs one
\* Query per processor, with the empty band string, from page 0.
C21_EmptyBandsCrawlUnfiltered ==
    (bands = <<>> /\ processors # <<>> /\ pc \in {"exit", "done"})
    => /\ Len(Queries) = Cardinality(SeqToSet(processors))
       /\ \A n \in DOMAIN Queries : Queries[n].band = ""
       /\ \A j \in DOMAIN Log : FirstOfQuery(j) => Log[j].start_page = 0

\* C21 (amended): an empty list of bands is refused when the configuration is
\* loaded: the run ends with exit status 1 before the discovery fetch, without any
\* Query, request, CSV file or row. A Query without band filter (no band component in
\* its URL) is run only for a band configured as the empty string, from page 0.
C21_EmptyBandListRejected ==
    /\ (bands = <<>> /\ pc # "load_config")
       => /\ pc = "exit"
          /\ exit_code = 1
          /\ hist.discovery = <<>>
          /\ Queries = <<>>
          /\ Log = <<>>
          /\ csv = <<>>
          /\ ~csv_header
    /\ \A j \in DOMAIN Log :
        QueryOf(j).band = ""
        => /\ \E i \in DOMAIN bands : bands[i] = ""
           /\ Log[j].url.band_str = ""
           /\ FirstOfQuery(j) => Log[j].start_page = 0

\* a configuration with a processor and no band has been refused
C21_Witness ==
    /\ bands = <<>>
    /\ processors # <<>>
    /\ pc = "exit"
    /\ exit_code = 1

-----------------------------------------------------------------------------
\* C22: page indices are server-directed: the first request of a Query targets page
\* index 0; every other request targets the index of the request before it when that
\* one was answered with 429, and otherwise the index suffix - 1 parsed from the
\* next-page pointer of the page the request before it was answered with. The URL
\* of a request carries the page component of the index it targets.
C22_IndicesServerDirected ==
    \A j \in DOMAIN Log :
        /\ Log[j].url.page_component =
             IF Log[j].start_page > 0 THEN <<Log[j].start_page + 1>> ELSE <<>>
        /\ IF FirstOfQuery(j) THEN Log[j].start_page = 0
           ELSE \/ Got429(j - 1) /\ Log[j].start_page = Log[j - 1].start_page
                \/ /\ GotResults(j - 1)
                   /\ Log[j - 1].content # NoContent
                   /\ HasNumericSuffix(Log[j - 1].ptr)
                   /\ Log[j].start_page = Suffix(Log[j - 1].ptr) - 1

\* page 0 points to page index 2, whose request is answered with 429 and repeated
C22_Witness ==
    /\ Len(Log) = 3
    /\ SameQuery(1, 3)
    /\ HasNumericSuffix(Log[1].ptr)
    /\ Suffix(Log[1].ptr) = 3
    /\ Got429(2)
    /\ Log[3].start_page = 2

-----------------------------------------------------------------------------
\* the requests issued for Query q
RequestsOf(q) == {j \in DOMAIN Log : Log[j].q = q}

\* the run is over and every Query started has ended
RunOver ==
    /\ pc \in {"done", "exit"}
    /\ \A q \in DOMAIN Queries : Queries[q].outcome \in {"done", "aborted"}

\* C23: against a remote service that answers 429 at most MaxRateLimits times in a
\* row for one page and whose next-page pointers designate a page index greater than
\* the index just fetched, up to MaxPage, every Query issues at most
\* (MaxPage + 1) * (MaxRateLimits + 1) requests and ends, and the run ends.
C23_FairRunTerminates ==
    /\ [](\A q \in DOMAIN Queries :
            Cardinality(RequestsOf(q)) <= (MaxPage + 1) * (MaxRateLimits + 1))
    /\ <>RunOver

\* a run that ended after a Query which was rate-limited on each of its pages
C23_Witness ==
    /\ pc = "done"
    /\ \E q \in DOMAIN Queries :
        /\ Cardinality(RequestsOf(q)) = (MaxPage + 1) * (MaxRateLimits + 1)
        /\ Queries[q].outcome = "done"

-----------------------------------------------------------------------------
\* request j was answered with a page whose content the Paginator stored
StoredPage(j) == GotResults(j) /\ Log[j].content # NoContent

\* C24 (as claimed): within one Query the page indices of the pages fetched and
\* stored strictly increase, so no page index is fetched, stored and persisted twice,
\* whatever next-page pointers the server returns.
C24_PageIndicesStrictlyIncrease ==
    \A i \in DOMAIN Log : \A j \in DOMAIN Log :
        (i < j /\ SameQuery(i, j) /\ StoredPage(i) /\ StoredPage(j))
        => Log[i].start_page < Log[j].start_page

-----------------------------------------------------------------------------
\* C25 (as claimed): between requests the run statistics account for every request
\* exactly once: total requests = pages fetched + rate-limit events + error events
\* + Queries that ended on a zero-result page.
C25_EveryRequestCountedOnce ==
    pc # "await"
    => progress_data.total_requests =
         progress_data.pages_fetched + progress_data.rate_limited + progress_data.errors
         + Cardinality({j \in DOMAIN Log : GotZero(j)})

-----------------------------------------------------------------------------
\* an exception was raised in the fill_proc_pages call that issued request j:
\* page.goto raised, the body had no content field, the CSV file could not be opened
\* for append, or the suffix of the next-page pointer was no number
ExceptionRaised(j) ==
    \/ Log[j].ev \in {"exception", "key_error", "io_error"}
    \/ Log[j].ev = "page" /\ HasNextPage(Log[j].ptr) /\ ~IsIntLiteral(LastPiece(Log[j].ptr))

\* C26: an exception raised while a Query is processed, at any pagination depth, adds
\* exactly one to the error counter and ends that Query as aborted; it does not end
\* the run: the Orchestrator goes on with the next (processor, band) pair, whose
\* first request finds the error counter as the exception left it, and a run that
\* completes has queried every pair.
C26_ExceptionContained ==
    \A j \in DOMAIN Log :
        ExceptionRaised(j)
        => /\ Log[j].after.errors = Log[j].before.errors + 1
           /\ Queries[Log[j].q].outcome = "aborted"
           /\ LastOfQuery(j)
           /\ pc # "exit"
           /\ exit_code \in {-1, 0}
           /\ Len(Queries) > Log[j].q
              => /\ Queries[Log[j].q + 1].proc = PairAt(Log[j].q + 1).proc
                 /\ Queries[Log[j].q + 1].band = PairAt(Log[j].q + 1).band
           /\ IF j = Len(Log)
              THEN /\ progress_data.errors = Log[j].after.errors
                   /\ pc = "done" => Len(Queries) = NumPairs
              ELSE /\ Log[j + 1].q = Log[j].q + 1
                   /\ Log[j + 1].before.errors = Log[j].after.errors

\* the CSV file cannot be opened for the second page of a Query, and the next Query
\* has issued its first request
C26_Witness ==
    \E j \in DOMAIN Log :
        /\ Log[j].ev = "io_error"
        /\ Log[j].depth >= 1
        /\ j < Len(Log)
        /\ Log[j + 1].q = Log[j].q + 1

-----------------------------------------------------------------------------
\* the Full_Name values of the rows persisted for processor p
NamesPersisted(p) == {csv[i].Full_Name : i \in {k \in DOMAIN csv : csv[k].Processor = p}}

\* C27 (as claimed): at the end of a run, for every processor the set of Full_Name
\* values among its persisted rows equals the final snapshot of that processor.
C27_RowsAgreeWithSnapshot ==
    pc = "done" => \A p \in DOMAIN phone_models_list : NamesPersisted(p) = phone_models_list[p]

====
